---------------------------- MODULE Spec2Model ----------------------------
(***************************************************************************)
(* Device Measurements API (api/main.py) and the three ingestion clients   *)
(* that consume it: the sequential loop (main_sync.py), the asyncio        *)
(* fan-out (main_async_measurements.py) and the thread pool with tenacity  *)
(* retries (main_multithreaded_measurements.py).                           *)
(*                                                                         *)
(* A behaviour is one session: a list of ingestion runs executed one after *)
(* the other against one endpoint with one (total, page_size, max_pages),  *)
(* as the scripts' main() and the test modules do (Spec).                  *)
(*                                                                         *)
(* GeneratorSpec is the service alone, handling requests one after the     *)
(* other through its module-wide random generator.  ServiceSpec is the     *)
(* service answering the page requests of one query in any order, with     *)
(* requests of other clients in between.  CallSpec is                      *)
(* fetch_all_single_url of main_multithreading.py paging through one URL   *)
(* with call().  ExportSpec is save_to_csv of the four root scripts.        *)
(***************************************************************************)
EXTENDS Integers, Sequences, FiniteSets, TLC

\* ------------------------------------------------------------------ bounds
MaxTotal == 5
MaxPageSize == 2
MaxPages == 3
MaxCount == 22
MaxItems == 1
MaxFlakyPages == 2

\* ------------------------------------------------------- program constants
MAX_RETRIES == 5
MAX_WORKERS == 5
max_retries == 3
LAST_PAGE == 5

\* --------------------------------------------------------------- helpers
Min(a, b) == IF a < b THEN a ELSE b

Range(s) == {s[k] : k \in 1..Len(s)}

\* ================================================================ service
\* The module-wide generator of `random`: the seed its stream comes from,
\* the pattern of draws made since it was seeded, and how many records'
\* worth of draws were taken.  A freshly imported module is seeded from the
\* operating system.
OsSeeded == [seed |-> "os", pattern |-> "fresh", records |-> 0]

\* A faulty random_seed: the line random.seed(42) is missing.
random_seed_missing(rng) == rng

\* A faulty random_seed: the generator is seeded on first use only.
random_seed_once(rng) ==
  IF rng.seed = "os" THEN [seed |-> "42", pattern |-> "fresh", records |-> 0]
  ELSE rng

\* random.seed(42)
random_seed(rng) == [seed |-> "42", pattern |-> "fresh", records |-> 0]

\* What CPython's generator yields after random.seed(42), record by record,
\* when each record draws choice, randint and four uniforms (no device_id):
\* the index into the pool of random.choice(device_ids), random_minutes of
\* randint(0, 24 * 60), and round(uniform(15.0, 35.0), 2) in hundredths.
SeededDevice ==
  << 1, 5, 5, 4, 4, 4, 4, 5, 3, 3, 1, 3, 1, 5, 2, 4, 1, 5, 5, 3, 3, 5, 5, 3,
     4, 5, 5, 4, 5, 1, 2, 4 >>

SeededMinutes ==
  << 51, 178, 54, 1206, 696, 198, 1098, 740, 163, 333, 1247, 1310, 469,
     644, 542, 1195, 96, 130, 23, 228, 1025, 1247, 1, 490, 141, 338, 1412,
     1059, 471, 64, 1104, 833 >>

SeededTemperature ==
  << 2983, 2681, 2622, 2056, 2056, 2218, 1750, 2655, 3211, 2240, 2770, 2876,
     3144, 1925, 1779, 2299, 3222, 2270, 2861, 2087, 3024, 1898, 2698, 1616,
     3456, 2030, 1902, 2403, 2677, 3219, 1765, 1881 >>

\* The same after random.seed(42) when a device_id is given and each record
\* draws randint and four uniforms only.
FilteredMinutes ==
  << 1309, 209, 61, 1330, 13, 440, 704, 775, 740, 592, 928, 546, 1093, 1310,
     114, 432, 1022, 505, 1195, 186, 1393, 1083, 234, 228, 539, 1280, 330,
     663, 629, 995, 1351, 866 >>

FilteredTemperature ==
  << 1723, 2853, 1687, 2903, 3018, 3414, 2707, 1658, 2655, 3470, 2771, 2904,
     2958, 2876, 1958, 3326, 2291, 2990, 2299, 3012, 2344, 2003, 2863, 2087,
     3444, 2097, 2579, 2477, 1979, 3132, 2451, 3429 >>

\* A stream no seed(42) determines (a generator seeded otherwise, or one
\* whose draws since the seed do not follow one pattern).
UnseededMinutes ==
  << 308, 118, 185, 126, 593, 211, 1155, 953, 167, 1247, 1001, 696, 552,
     1395, 945, 264, 919, 570, 309, 373, 652, 935, 815, 427, 309, 1257, 251,
     175, 1057, 55, 1061, 675 >>

\* The first 16 bits of str(uuid.uuid5(uuid.NAMESPACE_DNS, "measurement-<i>")),
\* i = 0, 1, ...: the identifiers in their string order.
Uuid5Prefix ==
  << 36042, 52680, 22002, 6179, 64863, 10503, 17665, 30504, 3214, 16965,
     44421, 27185, 9266, 22322, 48485, 26617, 36723, 50522, 16624, 62585,
     59170, 35773, 17863, 58985, 13793, 24509, 12630, 31481, 21779, 32648,
     11301, 2835 >>

At(table, k) == table[(k % Len(table)) + 1]

\* device_id: None, the empty string, or a device name.
NoDevice == "<None>"

\* A faulty Truthy: the given device_id is never used.
TruthyNever(device_id) == FALSE

\* `if device_id`: None and "" are both false.
Truthy(device_id) == device_id \notin {NoDevice, ""}

\* [f"device_{i}" for i in range(1, 6)]
DevicePool == << "device_1", "device_2", "device_3", "device_4", "device_5" >>

DrawPattern(device_id) == IF Truthy(device_id) THEN "fixed" ELSE "choice"

OnSeededStream(rng, device_id) ==
  rng.seed = "42" /\ rng.pattern \in {"fresh", DrawPattern(device_id)}

\* The body of `for i in range(count)`: the Measurement built for index i
\* with the generator in state rng.
Measurement(rng, i, device_id) ==
  [id |-> At(Uuid5Prefix, i),
   device_id |->
     IF Truthy(device_id) THEN device_id
     ELSE IF OnSeededStream(rng, device_id)
          THEN DevicePool[At(SeededDevice, rng.records)]
          ELSE DevicePool[(rng.records % 5) + 1],
   timestamp |->
     IF ~OnSeededStream(rng, device_id) THEN At(UnseededMinutes, rng.records)
     ELSE IF Truthy(device_id) THEN At(FilteredMinutes, rng.records)
     ELSE At(SeededMinutes, rng.records),
   temperature |->
     IF ~OnSeededStream(rng, device_id) THEN 2000 + rng.records
     ELSE IF Truthy(device_id) THEN At(FilteredTemperature, rng.records)
     ELSE At(SeededTemperature, rng.records)]

\* The generator after k more records' draws.
AfterRecords(rng, k, device_id) ==
  IF k = 0 THEN rng ELSE
  [seed |-> rng.seed,
   pattern |-> IF rng.pattern \in {"fresh", DrawPattern(device_id)}
               THEN DrawPattern(device_id) ELSE "mixed",
   records |-> (rng.records + k) % Len(SeededMinutes)]

\* The list after `for i in range(count)`, the generator being in state
\* rng when the loop starts: measurements.append(measurement) in index
\* order.
Appended(rng, count, device_id) ==
  [n \in 1..count |->
     Measurement(AfterRecords(rng, n - 1, device_id), n - 1, device_id)]

\* Where list.sort(key = timestamp, reverse = True) puts the element at
\* position n: after every element with a later timestamp and, the sort
\* being stable, after the equal ones that stood before it.
SortedPosition(list, n) ==
  Cardinality({j \in 1..Len(list) :
                 \/ list[j].timestamp > list[n].timestamp
                 \/ list[j].timestamp = list[n].timestamp /\ j < n}) + 1

SortByTimestampReverse(list) ==
  [k \in 1..Len(list) |->
     list[CHOOSE n \in 1..Len(list) : SortedPosition(list, n) = k]]

\* generate_measurements(count, device_id) called with the module-wide
\* generator in state rng: [rng |-> the generator afterwards,
\* measurements |-> the sorted list].  `measurements` is the list the loop
\* has built, which the sort then reorders.
generate_measurements_call(rng, count, device_id) ==
  [rng |-> AfterRecords(random_seed(rng), count, device_id),
   measurements |->
     CHOOSE sorted \in
       {SortByTimestampReverse(measurements) :
          measurements \in
            {SubSeq(Appended(random_seed(rng), count, device_id), 1, count)}} :
       TRUE]

\* generate_measurements(count): the list, as the ingestion clients (which
\* send no device_id) get it sliced.
generate_measurements(count) ==
  generate_measurements_call(OsSeeded, count, NoDevice).measurements

\* A faulty paginate: pages are counted from 0.
paginate_from_zero(measurements, page, size) ==
  SubSeq(measurements,
         Min(page * size, Len(measurements)) + 1,
         Min((page + 1) * size, Len(measurements)))

\* fastapi_pagination.paginate(measurements) under Params(page, size).
paginate(measurements, page, size) ==
  SubSeq(measurements,
         Min((page - 1) * size, Len(measurements)) + 1,
         Min(page * size, Len(measurements)))

\* A faulty ValidQuery: total is declared with gt = 1.
ValidQueryGt(total, page, size) ==
  /\ total > 1 /\ total <= 1000
  /\ page >= 1
  /\ size >= 1 /\ size <= 100

\* Query(..., ge =, le =) validation of the two paginated endpoints.
ValidQuery(total, page, size) ==
  /\ total >= 1 /\ total <= 1000
  /\ page >= 1
  /\ size >= 1 /\ size <= 100

Response(code, items) == [status_code |-> code, items |-> items]

NoResponse == Response(0, <<>>)

\* GET /measurements/page
get_measurements_page(total, page, size) ==
  IF ~ValidQuery(total, page, size) THEN {Response(422, <<>>)}
  ELSE {Response(200, paginate(measurements, page, size)) :
          measurements \in {generate_measurements(total)}}

\* GET /measurements/very-reliable: the unseeded roll either raises
\* HTTPException(500) or lets the handler answer as /measurements/page does.
get_measurements_unreliable(total, page, size) ==
  IF ~ValidQuery(total, page, size) THEN {Response(422, <<>>)}
  ELSE {Response(500, <<>>)} \cup
       {Response(200, paginate(measurements, page, size)) :
          measurements \in {generate_measurements(total)}}

Endpoints == {"/measurements/page", "/measurements/very-reliable"}

Serve(ep, total, page, size) ==
  IF ep = "/measurements/page" THEN get_measurements_page(total, page, size)
  ELSE get_measurements_unreliable(total, page, size)

\* ------------------------------------------------- handlers, with the RNG
\* What handling one request does: the module-wide generator afterwards,
\* whether generate_measurements was called and what it returned, and the
\* response.
Handled(rng, generated, dataset, response) ==
  [rng |-> rng, generated |-> generated, dataset |-> dataset,
   response |-> response]

Rejected(rng) == Handled(rng, FALSE, <<>>, Response(422, <<>>))

\* GET /measurements: Query(5, ge = 1, le = 100), then
\* generate_measurements(count, device_id)[:count].
get_measurements_legacy(rng, count, device_id) ==
  IF count < 1 \/ count > 100 THEN {Rejected(rng)}
  ELSE LET g == generate_measurements_call(rng, count, device_id)
       IN {Handled(g.rng, TRUE, g.measurements,
                   Response(200, SubSeq(g.measurements, 1,
                                        Min(count, Len(g.measurements)))))}

\* A faulty handler of GET /measurements/page: page and size are validated
\* after the dataset was generated.
get_measurements_page_validating_late(rng, q) ==
  IF ~ValidQuery(q.total, 1, 1) THEN {Rejected(rng)}
  ELSE LET g == generate_measurements_call(rng, q.total, q.device_id)
       IN IF ~ValidQuery(q.total, q.page, q.size)
          THEN {Handled(g.rng, TRUE, g.measurements, Response(422, <<>>))}
          ELSE {Handled(g.rng, TRUE, g.measurements,
                  Response(200, paginate(g.measurements, q.page, q.size)))}

\* A faulty handler of GET /measurements/page: a page past the end is an
\* error.
get_measurements_page_strict(rng, q) ==
  IF ~ValidQuery(q.total, q.page, q.size) THEN {Rejected(rng)}
  ELSE LET g == generate_measurements_call(rng, q.total, q.device_id)
       IN IF (q.page - 1) * q.size >= Len(g.measurements)
          THEN {Handled(g.rng, TRUE, g.measurements, Response(404, <<>>))}
          ELSE {Handled(g.rng, TRUE, g.measurements,
                  Response(200, paginate(g.measurements, q.page, q.size)))}

\* GET /measurements/page for the query q = [total, page, size, device_id].
get_measurements_page_call(rng, q) ==
  IF ~ValidQuery(q.total, q.page, q.size) THEN {Rejected(rng)}
  ELSE LET g == generate_measurements_call(rng, q.total, q.device_id)
       IN {Handled(g.rng, TRUE, g.measurements,
                   Response(200, paginate(g.measurements, q.page, q.size)))}

\* A faulty handler of GET /measurements/very-reliable: it does not pass
\* device_id on.
get_measurements_unreliable_unfiltered(rng, q) ==
  IF ~ValidQuery(q.total, q.page, q.size) THEN {Rejected(rng)}
  ELSE LET g == generate_measurements_call(rng, q.total, NoDevice)
       IN {Handled(rng, FALSE, <<>>, Response(500, <<>>)),
           Handled(g.rng, TRUE, g.measurements,
                   Response(200, paginate(g.measurements, q.page, q.size)))}

\* GET /measurements/very-reliable: unseeded_random = random.Random() is a
\* generator of its own; its roll either raises HTTPException(500) before
\* anything is generated, or the handler goes on as /measurements/page does.
get_measurements_unreliable_call(rng, q) ==
  IF ~ValidQuery(q.total, q.page, q.size) THEN {Rejected(rng)}
  ELSE LET g == generate_measurements_call(rng, q.total, q.device_id)
       IN {Handled(rng, FALSE, <<>>, Response(500, <<>>)),
           Handled(g.rng, TRUE, g.measurements,
                   Response(200, paginate(g.measurements, q.page, q.size)))}

Query(total, page, size, device_id) ==
  [total |-> total, page |-> page, size |-> size, device_id |-> device_id]

ServeCall(ep, rng, q) ==
  IF ep = "/measurements/page" THEN get_measurements_page_call(rng, q)
  ELSE get_measurements_unreliable_call(rng, q)

\* ================================================================ clients
\* What a fetch function hands to its caller: the JSON body, None, or an
\* exception.
Json(items) == [kind |-> "json", items |-> items]
None == [kind |-> "none", items |-> <<>>]
Raise(what) == [kind |-> what, items |-> <<>>]

\* requests' Response.raise_for_status(): HTTPError for 4xx and 5xx.
RaisesForStatus(code) == code >= 400 /\ code < 600

\* skill_boost_consuming_apis/main_sync.py fetch_measurements
fetch_measurements(r) ==
  IF r.status_code = 200 THEN Json(r.items)
  ELSE IF RaisesForStatus(r.status_code) THEN Raise("HTTPError")
  ELSE None

\* main_sync.py fetch_measurements (try/except around the request)
fetch_measurements_root(r) ==
  IF r.status_code = 200 THEN Json(r.items) ELSE None

\* main_async_measurements.py fetch_measurements (both copies)
fetch_measurements_async(r) ==
  IF r.status_code = 200 THEN Json(r.items) ELSE None

\* A faulty ShortPage: the loop stops on an empty page only.
ShortPageEmptyOnly(items, size) == Len(items) = 0

\* A faulty ShortPage: a full page stops the loop as well.
ShortPageInclusive(items, size) == Len(items) <= size

\* `if len(measurements) < page_size: break`
ShortPage(items, size) == Len(items) < size

\* A faulty stop_after_attempt: off by one, a sixth attempt is allowed.
stop_after_attempt_late(attempt_number) == attempt_number > MAX_RETRIES

\* tenacity stop_after_attempt(MAX_RETRIES)
stop_after_attempt(attempt_number) == attempt_number >= MAX_RETRIES

\* tenacity retry_if_exception_type(requests.exceptions.HTTPError)
retry_if_exception_type(kind) == kind = "HTTPError"

\* One attempt of the body of fetch_page.
fetch_page_body(r) ==
  IF r.status_code \in {200, 201} THEN Json(r.items)
  ELSE IF RaisesForStatus(r.status_code) THEN Raise("HTTPError")
  ELSE None

\* fetch_page under @retry after its attempt number `n`: the outcome, or
\* "retry" when tenacity sleeps wait_fixed(0.5) and calls the body again.
fetch_page(r, n) ==
  LET out == fetch_page_body(r) IN
  IF out.kind \in {"json", "none"} THEN out
  ELSE IF ~retry_if_exception_type(out.kind) THEN out
  ELSE IF stop_after_attempt(n) THEN Raise("RetryError")
  ELSE Raise("retry")

\* ================================================================== state
VARIABLES
  endpoint,          \* the endpoint of the session
  total,             \* total = records the service generates
  page_size,
  max_pages,
  plan,              \* the runs of the session still to start
  strategy,          \* the run in progress
  pc,                \* where the run is
  page,              \* the loop variable of the run's result loop
  attempts,          \* page -> requests issued for it in this run
  response,          \* page -> the last response received for it
  task,              \* page -> state of its task / future
  yielded,           \* futures as_completed has handed out
  all_measurements,  \* the run's collection
  returned,          \* strategy -> what its run gave its caller
  rng,               \* the service's module-wide random generator
  last,              \* the service's last call of generate_measurements
  prior,             \* what the service did before that call
  query,             \* the query whose pages a client fetches
  served,            \* page -> how the service handled its request
  call_pc,           \* where fetch_all_single_url is
  params_page,       \* params["page"]
  has_more,
  results,
  attempt_number,    \* attempts of the call() in progress
  result,            \* what the last call() gave fetch_all_single_url
  calls,             \* the session.get requests so far: page, status, outcome
  export_pc,         \* where the export step is
  script,            \* the script whose save_to_csv is called
  exported,          \* the list handed to save_to_csv
  sink,              \* the CSV file: whether it exists, and its rows
  answers_pc,        \* where main_async of main_asyncio.py is
  answers_page,      \* its loop variable `page`
  answers_max_pages, \* its parameter max_pages
  in_flight,         \* pages whose request is sent and not yet answered
  asked,             \* the pages main_async requested, in request order
  fetched,           \* the responses fetch_answers received, in order
  all_answers        \* its collection

client == << endpoint, total, page_size, max_pages, plan, strategy, pc, page,
             attempts, response, task, yielded, all_measurements, returned >>

service == << rng, last, prior, query, served >>

caller == << call_pc, params_page, has_more, results, attempt_number,
             result, calls >>

exporter == << export_pc, script, exported, sink >>

asker == << answers_pc, answers_page, answers_max_pages, in_flight, asked,
            fetched, all_answers >>

vars == << client, service, caller, exporter, asker >>

params == << endpoint, total, page_size, max_pages >>

Strategies == {"sync", "sync_root", "async", "threaded"}

Pages == 1..max_pages

Finished(p) ==
  task[p] \in {"json", "none", "HTTPError", "RetryError", "ConnectionError"}

\* A faulty AllDone: the wait ends as soon as one task has failed.
AllDoneOrOneFailed ==
  \/ \A p \in Pages : Finished(p)
  \/ \E p \in Pages : task[p] \in {"none", "HTTPError", "RetryError"}

\* A faulty AllDone: the results are read as soon as one task is done.
AnyDone == \E p \in Pages : Finished(p)

\* Every task / future of the run is done: what asyncio.gather and
\* ThreadPoolExecutor.shutdown(wait=True) wait for.
AllDone == \A p \in Pages : Finished(p)

NotRun == [kind |-> "not_run", value |-> <<>>]
Returned(v) == [kind |-> "returned", value |-> v]
Raised == [kind |-> "raised", value |-> <<>>]

StartPc(s) == IF s \in {"sync", "sync_root"} THEN "loop" ELSE "start"

\* The locals of a run of strategy s as it is entered.
EnterRun(s) ==
  /\ strategy' = s
  /\ pc' = StartPc(s)
  /\ page' = 1
  /\ attempts' = [p \in 1..max_pages |-> 0]
  /\ response' = [p \in 1..max_pages |-> NoResponse]
  /\ task' = [p \in 1..max_pages |-> "not_created"]
  /\ yielded' = {}
  /\ all_measurements' = <<>>

\* tests/test_benchmark.py and tests/test_benchmark_sync.py: the three
\* implementations one after the other on /measurements/page.
BenchmarkPlans == { <<"sync", "async", "threaded">>,
                    <<"sync_root", "async", "threaded">> }

\* Sessions of one run (main() of each script, tests/test_very_reliable.py).
SinglePlans == { <<s>> : s \in Strategies }

\* The stopping-rule scenario: total = 25, size = 10, sequential.
StopRuleCase == [total |-> 25, page_size |-> 10, max_pages |-> 5]

\* The thread-pool benchmark asks for more pages than the pool has workers
\* (max_pages = 100 there; one more than MAX_WORKERS here).
PoolPages == MAX_WORKERS + 1

\* A session is entered with its first run's locals initialised.
StartSession(session) ==
  /\ strategy = Head(session)
  /\ plan = Tail(session)
  /\ pc = StartPc(Head(session))

\* The service before any request reached it.
NoCall ==
  [by |-> "none", count |-> 0, device_id |-> NoDevice, generated |-> FALSE,
   dataset |-> <<>>, rolled |-> FALSE]

\* The page numbers a client asks for; 0 is below Query(ge = 1).
ServedPages == 0..MaxPages

NotServed == [response |-> NoResponse, generated |-> FALSE]

ServiceIdle ==
  /\ rng = OsSeeded
  /\ last = NoCall
  /\ prior = {}
  /\ query = [endpoint |-> "/measurements/page", total |-> 0, size |-> 0,
              device_id |-> NoDevice]
  /\ served = [p \in ServedPages |-> NotServed]

\* No call() made yet.
NoResult == [kind |-> "none", has_backoff |-> FALSE, has_more |-> FALSE,
             items |-> 0]

CallerIdle ==
  /\ call_pc = "idle"
  /\ params_page = 1
  /\ has_more = TRUE
  /\ results = <<>>
  /\ attempt_number = 0
  /\ result = NoResult
  /\ calls = <<>>

\* The CSV file before save_to_csv opens it: not there, or left by an
\* earlier export to the same filename.
NoFile == [exists |-> FALSE, rows |-> <<>>]

StaleFile == [exists |-> TRUE, rows |-> << <<"stale">> >>]

\* No export requested.
ExporterIdle ==
  /\ export_pc = "idle"
  /\ script = "main_sync.py"
  /\ exported = <<>>
  /\ sink = NoFile

\* main_async not started.
AskerIdle ==
  /\ answers_pc = "idle"
  /\ answers_page = 1
  /\ answers_max_pages = 0
  /\ in_flight = {}
  /\ asked = <<>>
  /\ fetched = <<>>
  /\ all_answers = <<>>

\* No ingestion run in progress.
ClientIdle ==
  /\ endpoint = "/measurements/page"
  /\ total = 0
  /\ page_size = 1
  /\ max_pages = 1
  /\ plan = <<>>
  /\ strategy = "sync"
  /\ pc = "returned"
  /\ page = 1
  /\ attempts = [p \in 1..1 |-> 0]
  /\ response = [p \in 1..1 |-> NoResponse]
  /\ task = [p \in 1..1 |-> "not_created"]
  /\ yielded = {}
  /\ all_measurements = <<>>
  /\ returned = [s \in Strategies |-> NotRun]

Init ==
  /\ ServiceIdle
  /\ CallerIdle
  /\ ExporterIdle
  /\ AskerIdle
  /\ \/ /\ endpoint \in Endpoints
        /\ total \in 0..MaxTotal
        /\ page_size \in 1..MaxPageSize
        /\ max_pages \in 1..MaxPages
        /\ \E session \in SinglePlans : StartSession(session)
     \/ /\ endpoint = "/measurements/page"
        /\ total \in 0..MaxTotal
        /\ page_size \in 1..MaxPageSize
        /\ max_pages \in 1..MaxPages
        /\ \E session \in BenchmarkPlans : StartSession(session)
     \/ /\ endpoint = "/measurements/page"
        /\ total = StopRuleCase.total
        /\ page_size = StopRuleCase.page_size
        /\ max_pages = StopRuleCase.max_pages
        /\ \E session \in { <<"sync">>, <<"sync_root">> } : StartSession(session)
     \/ /\ endpoint = "/measurements/page"
        /\ total \in 1..MaxTotal
        /\ page_size \in 1..MaxPageSize
        /\ max_pages = PoolPages
        /\ StartSession(<<"threaded">>)
  /\ page = 1
  /\ attempts = [p \in 1..max_pages |-> 0]
  /\ response = [p \in 1..max_pages |-> NoResponse]
  /\ task = [p \in 1..max_pages |-> "not_created"]
  /\ yielded = {}
  /\ all_measurements = <<>>
  /\ returned = [s \in Strategies |-> NotRun]

\* The session starts its next run.
NextRun ==
  /\ pc \in {"returned", "raised"}
  /\ plan # <<>>
  /\ EnterRun(Head(plan))
  /\ plan' = Tail(plan)
  /\ UNCHANGED << service, caller, exporter, asker >>
  /\ UNCHANGED << params, returned >>

\* `return all_measurements`
Return(v) ==
  /\ pc' = "returned"
  /\ returned' = [returned EXCEPT ![strategy] = Returned(v)]

\* an exception leaves the ingest function
Propagate ==
  /\ pc' = "raised"
  /\ returned' = [returned EXCEPT ![strategy] = Raised]

\* ------------------------------------------------------------- sequential
\* One iteration of `for page in range(1, max_pages + 1)` of
\* ingest_measurements, and the return when the loop ends.
SyncFetch ==
  /\ strategy \in {"sync", "sync_root"}
  /\ pc = "loop"
  /\ \E r \in Serve(endpoint, total, page, page_size) :
       LET res == IF strategy = "sync" THEN fetch_measurements(r)
                  ELSE fetch_measurements_root(r)
           all == all_measurements \o res.items
       IN /\ attempts' = [attempts EXCEPT ![page] = @ + 1]
          /\ response' = [response EXCEPT ![page] = r]
          /\ IF res.kind = "HTTPError"
             THEN Propagate /\ UNCHANGED << page, all_measurements >>
             ELSE IF res.kind = "none"
             THEN Return(all_measurements)
                  /\ UNCHANGED << page, all_measurements >>
             ELSE /\ all_measurements' = all
                  /\ IF ShortPage(res.items, page_size) \/ page = max_pages
                     THEN Return(all) /\ UNCHANGED page
                     ELSE /\ page' = page + 1
                          /\ UNCHANGED << pc, returned >>
  /\ UNCHANGED << service, caller, exporter, asker >>
  /\ UNCHANGED << params, plan, strategy, task, yielded >>

\* ---------------------------------------------------------------- asyncio
\* A faulty AsyncCreateTasks: only the first page's task is created before
\* the function awaits.
AsyncCreateTasksOneByOne ==
  /\ strategy = "async"
  /\ pc = "start"
  /\ task' = [p \in Pages |-> IF p = 1 THEN "pending" ELSE "not_created"]
  /\ pc' = "gather"
  /\ UNCHANGED << service, caller, exporter, asker >>
  /\ UNCHANGED << params, plan, strategy, page, attempts, response, yielded,
                  all_measurements, returned >>

\* The loop of asyncio.create_task(fetch_measurements(...)): one task per
\* page, all created before ingest_measurements_async awaits anything.
AsyncCreateTasks ==
  /\ strategy = "async"
  /\ pc = "start"
  /\ task' = [p \in Pages |-> "pending"]
  /\ pc' = "gather"
  /\ UNCHANGED << service, caller, exporter, asker >>
  /\ UNCHANGED << params, plan, strategy, page, attempts, response, yielded,
                  all_measurements, returned >>

\* The task of page p runs fetch_measurements: its single request and the
\* response to it.  Tasks finish in any order.
AsyncFetch(p) ==
  /\ strategy = "async"
  /\ pc = "gather"
  /\ task[p] = "pending"
  /\ \E r \in Serve(endpoint, total, p, page_size) :
       /\ attempts' = [attempts EXCEPT ![p] = @ + 1]
       /\ response' = [response EXCEPT ![p] = r]
       /\ task' = [task EXCEPT ![p] = fetch_measurements_async(r).kind]
  /\ UNCHANGED << service, caller, exporter, asker >>
  /\ UNCHANGED << params, plan, strategy, pc, page, yielded,
                  all_measurements, returned >>

\* `results = await asyncio.gather(*tasks, return_exceptions=True)` returns
\* once every task is done.
AsyncGather ==
  /\ strategy = "async"
  /\ pc = "gather"
  /\ AllDone
  /\ pc' = "process"
  /\ page' = 1
  /\ UNCHANGED << service, caller, exporter, asker >>
  /\ UNCHANGED << params, plan, strategy, attempts, response, task, yielded,
                  all_measurements, returned >>

\* One iteration of `for i, result in enumerate(results)`, and the return
\* after the last one.
AsyncProcess ==
  /\ strategy = "async"
  /\ pc = "process"
  /\ LET all == IF task[page] = "json"
                THEN all_measurements \o response[page].items
                ELSE all_measurements   \* exception or None: continue
     IN /\ all_measurements' = all
        /\ IF page = max_pages
           THEN Return(all) /\ UNCHANGED page
           ELSE page' = page + 1 /\ UNCHANGED << pc, returned >>
  /\ UNCHANGED << service, caller, exporter, asker >>
  /\ UNCHANGED << params, plan, strategy, attempts, response, task, yielded >>

\* ------------------------------------------------------------ thread pool
InFlight == {p \in Pages : task[p] = "running"}

\* A faulty WorkerFree: a thread per work item.
WorkerFreeAlways == TRUE

\* ThreadPoolExecutor(max_workers=MAX_WORKERS) has an idle or unspawned
\* worker thread.
WorkerFree == Cardinality(InFlight) < MAX_WORKERS

\* A faulty Contribution: the items of every attempt's response are kept.
ContributionPerAttempt(p) ==
  IF task[p] # "json" THEN <<>>
  ELSE LET RECURSIVE Times(_)
           Times(n) == IF n = 0 THEN <<>>
                       ELSE Times(n - 1) \o response[p].items
       IN Times(attempts[p])

\* What the future of page p adds to the collection: response.get("items")
\* of the value fetch_page returned.
Contribution(p) == IF task[p] = "json" THEN response[p].items ELSE <<>>

\* A faulty Unread: as_completed hands a future out again.
UnreadAlways(p) == TRUE

\* as_completed yields each future once.
Unread(p) == p \notin yielded

\* The dict comprehension of executor.submit(fetch_page, ...): one future
\* per page, queued in page order.
Submit ==
  /\ strategy = "threaded"
  /\ pc = "start"
  /\ task' = [p \in Pages |-> "queued"]
  /\ pc' = "executor"
  /\ UNCHANGED << service, caller, exporter, asker >>
  /\ UNCHANGED << params, plan, strategy, page, attempts, response, yielded,
                  all_measurements, returned >>

\* A free worker of ThreadPoolExecutor(max_workers=MAX_WORKERS) takes the
\* oldest queued work item.
WorkerStart(p) ==
  /\ strategy = "threaded"
  /\ pc = "executor"
  /\ task[p] = "queued"
  /\ \A q \in Pages : q < p => task[q] # "queued"
  /\ WorkerFree
  /\ task' = [task EXCEPT ![p] = "running"]
  /\ UNCHANGED << service, caller, exporter, asker >>
  /\ UNCHANGED << params, plan, strategy, pc, page, attempts, response,
                  yielded, all_measurements, returned >>

\* One attempt of fetch_page for page p in its worker: the request, the
\* response, and tenacity's decision to return, re-raise or try again.
FetchPageAttempt(p) ==
  /\ strategy = "threaded"
  /\ pc = "executor"
  /\ task[p] = "running"
  /\ \E r \in Serve(endpoint, total, p, page_size) :
       LET out == fetch_page(r, attempts[p] + 1) IN
       /\ attempts' = [attempts EXCEPT ![p] = @ + 1]
       /\ response' = [response EXCEPT ![p] = r]
       /\ task' = [task EXCEPT ![p] =
                     IF out.kind = "retry" THEN "running" ELSE out.kind]
  /\ UNCHANGED << service, caller, exporter, asker >>
  /\ UNCHANGED << params, plan, strategy, pc, page, yielded,
                  all_measurements, returned >>

\* A faulty ExecutorShutdown: shutdown(wait=False), the results are read
\* while workers may still be busy.
ExecutorShutdownNoWait ==
  /\ strategy = "threaded"
  /\ pc = "executor"
  /\ pc' = "as_completed"
  /\ UNCHANGED << service, caller, exporter, asker >>
  /\ UNCHANGED << params, plan, strategy, page, attempts, response, task,
                  yielded, all_measurements, returned >>

\* Leaving `with ThreadPoolExecutor(...)`: shutdown(wait=True) returns once
\* every future is done.
ExecutorShutdown ==
  /\ strategy = "threaded"
  /\ pc = "executor"
  /\ AllDone
  /\ pc' = "as_completed"
  /\ UNCHANGED << service, caller, exporter, asker >>
  /\ UNCHANGED << params, plan, strategy, page, attempts, response, task,
                  yielded, all_measurements, returned >>

\* One iteration of `for future in as_completed(page_futures)`.  Every
\* future is already finished, so as_completed hands them out in the
\* iteration order of a set of Future objects: any order.
AsCompleted(p) ==
  /\ strategy = "threaded"
  /\ pc = "as_completed"
  /\ p \in Pages
  /\ Unread(p)
  /\ IF task[p] \in {"HTTPError", "RetryError", "ConnectionError"}
     THEN \* future.result() re-raises the worker's exception
          Propagate /\ UNCHANGED << yielded, all_measurements >>
     ELSE LET items == Contribution(p)
              all == all_measurements \o items
          IN /\ yielded' = yielded \cup {p}
             /\ all_measurements' = all
             /\ IF \/ (task[p] = "json" /\ ShortPage(items, page_size))
                   \/ yielded' = Pages
                THEN Return(all)
                ELSE UNCHANGED << pc, returned >>
  /\ UNCHANGED << service, caller, exporter, asker >>
  /\ UNCHANGED << params, plan, strategy, page, attempts, response, task >>

Next ==
  \/ NextRun
  \/ SyncFetch
  \/ AsyncCreateTasks
  \/ \E p \in Pages : AsyncFetch(p)
  \/ AsyncGather
  \/ AsyncProcess
  \/ Submit
  \/ \E p \in Pages : WorkerStart(p)
  \/ \E p \in Pages : FetchPageAttempt(p)
  \/ ExecutorShutdown
  \/ \E p \in Pages : AsCompleted(p)

Spec == Init /\ [][Next]_vars

\* The interpreter, the event loop and the worker threads keep running and
\* every request is answered: a session that can take a step takes one.
\* The sessions against /measurements/page are the ones followed to their
\* end.
LiveInit == Init /\ endpoint = "/measurements/page"

LiveSpec == LiveInit /\ [][Next]_vars /\ WF_vars(Next)

\* ============================================ one run, whatever fails
\* One ingestion run on its own, against either endpoint, followed to its
\* end: the interpreter, the event loop and the pool's threads keep running.
RunInit == Init /\ plan = <<>> /\ max_pages <= MaxFlakyPages

RunNext ==
  \/ SyncFetch
  \/ AsyncCreateTasks
  \/ \E p \in Pages : AsyncFetch(p)
  \/ AsyncGather
  \/ AsyncProcess
  \/ Submit
  \/ \E p \in Pages : WorkerStart(p)
  \/ \E p \in Pages : FetchPageAttempt(p)
  \/ ExecutorShutdown
  \/ \E p \in Pages : AsCompleted(p)

RunSpec == RunInit /\ [][RunNext]_vars /\ WF_vars(RunNext)

\* ================================================= the service unreachable
\* fetch_page under @retry after its attempt number `n` ended in an
\* exception of class `kind` raised by session.get itself (no response was
\* received): the exception is raised to the caller unless the retry
\* condition matches it.
fetch_page_raised(kind, n) ==
  IF ~retry_if_exception_type(kind) THEN Raise(kind)
  ELSE IF stop_after_attempt(n) THEN Raise("RetryError")
  ELSE Raise("retry")

\* One attempt of a worker's fetch_page in which session.get raises
\* requests.exceptions.ConnectionError (a connect failure or, as
\* ConnectTimeout, a timeout): the request got no response.
FetchPageConnectFail(p) ==
  /\ strategy = "threaded"
  /\ pc = "executor"
  /\ task[p] = "running"
  /\ LET out == fetch_page_raised("ConnectionError", attempts[p] + 1) IN
     /\ attempts' = [attempts EXCEPT ![p] = @ + 1]
     /\ response' = [response EXCEPT ![p] = NoResponse]
     /\ task' = [task EXCEPT ![p] =
                   IF out.kind = "retry" THEN "running" ELSE out.kind]
  /\ UNCHANGED << service, caller, exporter, asker >>
  /\ UNCHANGED << params, plan, strategy, pc, page, yielded,
                  all_measurements, returned >>

\* A thread-pool run on its own against /measurements/page, with a network
\* on which a request may fail before any response arrives.
NetInit ==
  Init /\ strategy = "threaded" /\ plan = <<>>
       /\ endpoint = "/measurements/page"

NetNext ==
  \/ Submit
  \/ \E p \in Pages : WorkerStart(p)
  \/ \E p \in Pages : FetchPageAttempt(p)
  \/ \E p \in Pages : FetchPageConnectFail(p)
  \/ ExecutorShutdown
  \/ \E p \in Pages : AsCompleted(p)

NetSpec == NetInit /\ [][NetNext]_vars

\* ============================================== the service on its own
\* Requests reach the three handlers in any order; each handler is an
\* `async def` without an await, so it runs to its end once started.
\* The counts asked for; 101 and 1001 are just past the handlers' limits.
Counts == 0..MaxCount

DeviceIds == {NoDevice, "", "device_7"}

\* The service's state after a request by handler `by` was handled as h.
AfterRequest(by, count, device_id, h) ==
  /\ rng' = h.rng
  /\ IF h.generated
     THEN /\ last' = [by |-> by, count |-> count, device_id |-> device_id,
                      generated |-> TRUE, dataset |-> h.dataset,
                      rolled |-> FALSE]
          /\ prior' = prior
               \cup (IF last.rolled THEN {"failed_roll"} ELSE {})
               \cup (IF last.generated
                        /\ << last.count, last.device_id >>
                             # << count, device_id >>
                     THEN {"other_arguments"} ELSE {})
     ELSE /\ last' = [last EXCEPT !.rolled =
                        @ \/ h.response.status_code = 500]
          /\ prior' = prior

LegacyRequest ==
  \E count \in Counts \cup {101}, device_id \in DeviceIds :
    \E h \in get_measurements_legacy(rng, count, device_id) :
      AfterRequest("/measurements", count, device_id, h)

PageRequest ==
  \E count \in Counts \cup {1001}, device_id \in DeviceIds :
    \E h \in get_measurements_page_call(
               rng, Query(count, 1, MaxPageSize, device_id)) :
      AfterRequest("/measurements/page", count, device_id, h)

UnreliableRequest ==
  \E count \in Counts \cup {1001}, device_id \in DeviceIds :
    \E h \in get_measurements_unreliable_call(
               rng, Query(count, 1, MaxPageSize, device_id)) :
      AfterRequest("/measurements/very-reliable", count, device_id, h)

GeneratorInit ==
  /\ ClientIdle
  /\ ExporterIdle
  /\ AskerIdle
  /\ CallerIdle
  /\ ServiceIdle

GeneratorNext ==
  /\ \/ LegacyRequest
     \/ PageRequest
     \/ UnreliableRequest
  /\ UNCHANGED << client, caller, exporter, asker, query, served >>

GeneratorSpec == GeneratorInit /\ [][GeneratorNext]_vars

\* ------------------------------------------- the pages of one query
Totals == (0..MaxTotal) \cup {1001}

Sizes == (0..MaxPageSize) \cup {101}

IsServed(p) == served[p] # NotServed

\* The service handles the request for page p of the query; a page answered
\* with HTTP 500 may be asked for again.
ServePage(p) ==
  /\ ~IsServed(p) \/ served[p].response.status_code = 500
  /\ \E h \in ServeCall(query.endpoint, rng,
                        Query(query.total, p, query.size, query.device_id)) :
       /\ rng' = h.rng
       /\ served' = [served EXCEPT
                       ![p] = [response |-> h.response,
                               generated |-> h.generated]]
  /\ prior' = prior \cup (IF \E q \in ServedPages : q > p /\ IsServed(q)
                          THEN {"out_of_order"} ELSE {})
  /\ UNCHANGED << last, query >>

\* The service handles another client's GET /measurements in between.
OtherRequest ==
  /\ \E count \in 1..MaxPageSize, device_id \in DeviceIds :
       \E h \in get_measurements_legacy(rng, count, device_id) :
         rng' = h.rng
  /\ prior' = prior \cup (IF \E q \in ServedPages : IsServed(q)
                          THEN {"interleaved"} ELSE {})
  /\ UNCHANGED << last, query, served >>

ServiceInit ==
  /\ ClientIdle
  /\ ExporterIdle
  /\ AskerIdle
  /\ CallerIdle
  /\ rng = OsSeeded
  /\ last = NoCall
  /\ prior = {}
  /\ query \in [endpoint : Endpoints, total : Totals, size : Sizes,
                device_id : DeviceIds]
  /\ served = [p \in ServedPages |-> NotServed]

ServiceNext ==
  /\ \/ \E p \in ServedPages : ServePage(p)
     \/ OtherRequest
  /\ UNCHANGED << client, caller, exporter, asker >>

ServiceSpec == ServiceInit /\ [][ServiceNext]_vars

\* ======================================= main_multithreading.py: call()
\* A response of the remote API: its status and, in the JSON body, whether
\* a "backoff" key is present, "has_more", and the number of "items".
Statuses == {200, 201, 204, 500}

Bodies == [has_backoff : BOOLEAN, has_more : BOOLEAN, items : 0..MaxItems]

should_backoff(body) == body.has_backoff

\* How the block under `with attempt:` ends for a response: the `return`
\* leaves call() at once; raise_for_status() raises; otherwise the block
\* ends without a value and AttemptManager.__exit__ records the result None.
AttemptOutcome(status, body) ==
  IF status \in {200, 201}
  THEN [kind |-> "json", has_backoff |-> body.has_backoff,
        has_more |-> body.has_more, items |-> body.items]
  ELSE IF RaisesForStatus(status)
       THEN [kind |-> "HTTPError", has_backoff |-> FALSE,
             has_more |-> FALSE, items |-> 0]
       ELSE [kind |-> "result_none", has_backoff |-> FALSE,
             has_more |-> FALSE, items |-> 0]

\* What call() gives its caller.  retry_if_result(should_backoff) is asked
\* only about what the Retrying object was told: it does not retry an
\* exception, which is re-raised, and for the recorded result None the test
\* `"backoff" in result` raises TypeError.  A body returned from inside the
\* block never reaches it.
CallResult(status, body) ==
  LET outcome == AttemptOutcome(status, body)
  IN IF outcome.kind = "result_none"
     THEN [outcome EXCEPT !.kind = "TypeError"]
     ELSE outcome

\* A faulty call: an HTTPError is retried until max_retries attempts were
\* made.
call_retrying_errors ==
  /\ call_pc = "call"
  /\ \E status \in Statuses, body \in Bodies :
       /\ result' = CallResult(status, body)
       /\ calls' = Append(calls, [page |-> params_page, status |-> status,
                                  result |-> CallResult(status, body)])
  /\ attempt_number' = IF result'.kind = "HTTPError" THEN max_retries ELSE 1
  /\ call_pc' = IF result'.kind = "json" THEN "extend" ELSE "raised"
  /\ UNCHANGED << params_page, has_more, results >>

\* call(session, url, params): one session.get, then return or raise.
call ==
  /\ call_pc = "call"
  /\ attempt_number' = 1
  /\ \E status \in Statuses, body \in Bodies :
       /\ result' = CallResult(status, body)
       /\ calls' = Append(calls, [page |-> params_page, status |-> status,
                                  result |-> CallResult(status, body)])
  /\ call_pc' = IF result'.kind = "json" THEN "extend" ELSE "raised"
  /\ UNCHANGED << params_page, has_more, results >>

\* A faulty fetch_all_single_url: the `while` test sees the has_more of the
\* response before the last one.
fetch_all_single_url_stale ==
  /\ call_pc = "extend"
  /\ results' = results \o [k \in 1..result.items |-> params_page]
  /\ IF params_page >= LAST_PAGE
     THEN call_pc' = "returned" /\ UNCHANGED << params_page, has_more >>
     ELSE /\ params_page' = params_page + 1
          /\ has_more' = result.has_more
          /\ call_pc' = IF has_more THEN "call" ELSE "returned"
  /\ UNCHANGED << attempt_number, result, calls >>

\* The rest of the loop body of fetch_all_single_url and its `while` test.
fetch_all_single_url ==
  /\ call_pc = "extend"
  /\ results' = results \o [k \in 1..result.items |-> params_page]
  /\ IF params_page >= LAST_PAGE
     THEN call_pc' = "returned" /\ UNCHANGED << params_page, has_more >>
     ELSE /\ params_page' = params_page + 1
          /\ has_more' = result.has_more
          /\ call_pc' = IF result.has_more THEN "call" ELSE "returned"
  /\ UNCHANGED << attempt_number, result, calls >>

CallInit ==
  /\ ClientIdle
  /\ ExporterIdle
  /\ AskerIdle
  /\ ServiceIdle
  /\ call_pc = "call"
  /\ params_page = 1
  /\ has_more = TRUE
  /\ results = <<>>
  /\ attempt_number = 0
  /\ result = NoResult
  /\ calls = <<>>

CallNext ==
  /\ \/ call
     \/ fetch_all_single_url
  /\ UNCHANGED << client, service, exporter, asker >>

CallSpec == CallInit /\ [][CallNext]_vars

\* =========================================================== save_to_csv
\* main_sync.py, main_multithreaded_measurements.py and
\* main_async_measurements.py carry the same save_to_csv for measurements;
\* main_asyncio.py has its own for Stack Exchange answers.
MeasurementScripts ==
  {"main_sync.py", "main_multithreaded_measurements.py",
   "main_async_measurements.py"}

\* writer.writerow(["No measurements available"])
MarkerRow == << "No measurements available" >>

\* fields, as writer.writeheader() writes them (those of the model's
\* Measurement).
MeasurementFields == << "id", "device_id", "timestamp", "temperature" >>

\* csv.DictWriter(csvfile, fieldnames=fields).writerow(measurement)
MeasurementRow(m) == << m.id, m.device_id, m.timestamp, m.temperature >>

AnswerFields == << "answer_id", "question_id", "score", "is_accepted" >>

\* The row dict main_asyncio.py builds with answer.get(key[, default]).
AnswerRow(a) == << a.answer_id, a.question_id, a.score, a.is_accepted >>

RECURSIVE Rows(_, _)
Rows(items, measurement) ==
  IF items = <<>> THEN <<>>
  ELSE << IF measurement THEN MeasurementRow(Head(items))
          ELSE AnswerRow(Head(items)) >>
       \o Rows(Tail(items), measurement)

\* open(filename, "w") truncates or creates the file; then the rows.
Written(rows) == [exists |-> TRUE, rows |-> rows]

\* save_to_csv(measurements, filename) of the three measurement scripts.
save_to_csv ==
  /\ export_pc = "ready"
  /\ script \in MeasurementScripts
  /\ sink' = IF exported = <<>>                  \* `if not measurements`
             THEN Written(<< MarkerRow >>)
             ELSE Written(<< MeasurementFields >> \o Rows(exported, TRUE))
  /\ export_pc' = "saved"
  /\ UNCHANGED << script, exported >>

\* save_to_csv(answers, filename) of main_asyncio.py: `if not answers:
\* return` comes before any file is opened.
save_to_csv_answers ==
  /\ export_pc = "ready"
  /\ script = "main_asyncio.py"
  /\ sink' = IF exported = <<>> THEN sink
             ELSE Written(<< AnswerFields >> \o Rows(exported, FALSE))
  /\ export_pc' = "saved"
  /\ UNCHANGED << script, exported >>

\* The lists handed to save_to_csv: up to MaxPages items.
Lists(S) == UNION { [1..k -> S] : k \in 0..MaxPages }

Answers ==
  { [answer_id |-> a, question_id |-> 1, score |-> 0, is_accepted |-> FALSE] :
      a \in 1..(MaxPageSize + 1) }

ExportInit ==
  /\ ClientIdle
  /\ AskerIdle
  /\ ServiceIdle
  /\ CallerIdle
  /\ export_pc = "ready"
  /\ \/ /\ script \in MeasurementScripts
        /\ exported \in Lists(Range(generate_measurements(MaxPageSize + 1)))
     \/ /\ script = "main_asyncio.py"
        /\ exported \in Lists(Answers)
  /\ sink \in {NoFile, StaleFile}

ExportNext ==
  /\ \/ save_to_csv
     \/ save_to_csv_answers
  /\ UNCHANGED << client, service, caller, asker >>

ExportSpec == ExportInit /\ [][ExportNext]_vars

\* ================================================ main_asyncio.py: main_async
\* What the Stack Exchange API may do with a request of fetch_answers:
\* answer 200 with a JSON body (its "has_more" true, false or absent and
\* some "items"), answer with another status, or no answer at all (status
\* 0: session.get raises).
AnswerResponses ==
  [status : {200}, has_more : {"true", "false", "absent"},
   items : 0..MaxItems]
  \cup [status : {0, 500}, has_more : {"absent"}, items : {0}]

\* An answer object of page p.
AnswerOfPage(p) ==
  [answer_id |-> p, question_id |-> 1, score |-> 0, is_accepted |-> FALSE]

\* response.get("items", [])
ItemsOf(p, r) == [k \in 1..r.items |-> AnswerOfPage(p)]

\* fetch_answers(session, page): the JSON body for status 200, None for
\* another status or an exception.
fetch_answers(p, r) ==
  IF r.status = 200 THEN Json(ItemsOf(p, r)) ELSE None

\* A faulty HasMore: response.get("has_more", True).
HasMoreDefaultTrue(r) == r.has_more # "false"

\* response.get("has_more", False)
HasMore(r) == r.has_more = "true"

\* `response = await fetch_answers(session, page=page, **params)`: the
\* request is sent and main_async is suspended.
main_async_request ==
  /\ answers_pc = "loop"
  /\ in_flight' = in_flight \cup {answers_page}
  /\ asked' = Append(asked, answers_page)
  /\ answers_pc' = "await"
  /\ UNCHANGED << answers_page, answers_max_pages, fetched, all_answers >>
  /\ UNCHANGED << client, service, caller, exporter >>

\* fetch_answers returns and the rest of the loop body runs, up to the
\* next request or to the end of the loop (asyncio.sleep(0.1) included).
main_async_response ==
  /\ answers_pc = "await"
  /\ \E r \in AnswerResponses :
       LET body == fetch_answers(answers_page, r) IN
       /\ in_flight' = in_flight \ {answers_page}
       /\ fetched' = Append(fetched, [page |-> answers_page, response |-> r])
       /\ IF body = None                      \* `if not response: break`
          THEN /\ answers_pc' = "save"
               /\ UNCHANGED << answers_page, all_answers >>
          ELSE /\ all_answers' = all_answers \o body.items
               /\ IF ~HasMore(r) \/ answers_page = answers_max_pages
                  THEN answers_pc' = "save" /\ UNCHANGED answers_page
                  ELSE /\ answers_page' = answers_page + 1
                       /\ answers_pc' = "loop"
  /\ UNCHANGED << answers_max_pages, asked >>
  /\ UNCHANGED << client, service, caller, exporter >>

\* `await save_to_csv(all_answers, filename)` and `return filename`.
main_async_save ==
  /\ answers_pc = "save"
  /\ script' = "main_asyncio.py"
  /\ exported' = all_answers
  /\ sink' = IF all_answers = <<>> THEN sink
             ELSE Written(<< AnswerFields >> \o Rows(all_answers, FALSE))
  /\ export_pc' = "saved"
  /\ answers_pc' = "returned"
  /\ UNCHANGED << answers_page, answers_max_pages, in_flight, asked, fetched,
                  all_answers >>
  /\ UNCHANGED << client, service, caller >>

AnswersInit ==
  /\ ClientIdle
  /\ ServiceIdle
  /\ CallerIdle
  /\ ExporterIdle
  /\ answers_max_pages \in 0..MaxPages
  /\ answers_page = 1
  \* `for page in range(1, max_pages + 1)` has no iteration for max_pages = 0
  /\ answers_pc = IF answers_max_pages = 0 THEN "save" ELSE "loop"
  /\ in_flight = {}
  /\ asked = <<>>
  /\ fetched = <<>>
  /\ all_answers = <<>>

AnswersNext ==
  \/ main_async_request
  \/ main_async_response
  \/ main_async_save

AnswersSpec == AnswersInit /\ [][AnswersNext]_vars

\* ================================================================= claims
Terminal == pc \in {"returned", "raised"}

Sequential == strategy \in {"sync", "sync_root"}

Dataset == generate_measurements(total)

\* The position of record m in the generated dataset, and the page the
\* service serves it on.
PositionOf(m) == CHOOSE k \in 1..Len(Dataset) : Dataset[k] = m
PageOf(m) == ((PositionOf(m) - 1) \div page_size) + 1

Count(seq, m) == Cardinality({k \in 1..Len(seq) : seq[k] = m})

Ran == {s \in Strategies : returned[s].kind # "not_run"}

\* C1 (as claimed): on the deterministic endpoint with valid parameters the
\* runs of one session (sequential, asyncio, thread pool) all return the
\* same record sequence, whatever order the page fetches are handed out in.
C1_StrategyParity ==
  (endpoint = "/measurements/page" /\ total >= 1)
    => \A s, t \in Ran : returned[s] = returned[t]

\* C2 (as claimed): in every run the collection is ordered by page number:
\* an item of page i never comes after an item of page j > i.
C2_PageOrder ==
  \A a, b \in 1..Len(all_measurements) :
    a < b => PageOf(all_measurements[a]) <= PageOf(all_measurements[b])

\* C3 (as claimed): on the deterministic endpoint with no failures, the
\* collection a run returns holds each record of pages
\* 1..min(max_pages, ceil(L / page_size)) exactly once.
C3_NoPageMissedOrDuplicated ==
  (endpoint = "/measurements/page" /\ total >= 1 /\ pc = "returned")
    => \A k \in 1..Min(Len(Dataset), max_pages * page_size) :
         Count(all_measurements, Dataset[k]) = 1

\* C4: the sequential loop requests a page at most once, requests page k+1
\* only after page k came back with a full page of page_size items, and with
\* total = 25, size = 10 it returns after requesting exactly pages 1, 2, 3
\* (10, 10 and 5 items), page 4 never being requested.
C4_SequentialStoppingRule ==
  Sequential =>
    /\ \A p \in Pages : attempts[p] <= 1
    /\ \A p \in Pages :
         (p > 1 /\ attempts[p] > 0)
           => /\ response[p - 1].status_code = 200
              /\ Len(response[p - 1].items) >= page_size
    /\ (total = 25 /\ page_size = 10 /\ max_pages >= 3)
         => /\ \A p \in Pages : p >= 4 => attempts[p] = 0
            /\ pc = "returned"
                 => /\ \A p \in 1..3 : attempts[p] = 1
                    /\ Len(response[1].items) = 10
                    /\ Len(response[2].items) = 10
                    /\ Len(response[3].items) = 5
                    /\ all_measurements = Dataset

\* C4 witness: the total = 25, size = 10 run has returned after the short
\* third page.
C4_Witness ==
  /\ strategy = "sync" /\ total = 25 /\ page_size = 10 /\ pc = "returned"
  /\ attempts[3] = 1 /\ Len(response[3].items) = 5
  /\ Len(all_measurements) = 25

\* C5: fetch_page never issues more than MAX_RETRIES requests for a page; a
\* fetch still running after a request has only seen HTTP errors; and a
\* fetch whose requests all failed with an HTTP error ends after exactly
\* MAX_RETRIES requests with RetryError, never with data.
C5_RetryExhaustion ==
  strategy = "threaded" =>
    \A p \in Pages :
      /\ attempts[p] <= MAX_RETRIES
      /\ (task[p] = "running" /\ attempts[p] > 0)
           => /\ RaisesForStatus(response[p].status_code)
              /\ attempts[p] < MAX_RETRIES
      /\ (Finished(p) /\ RaisesForStatus(response[p].status_code))
           => /\ attempts[p] = MAX_RETRIES
              /\ task[p] = "RetryError"

\* C5 witness: a page of the unreliable endpoint has failed five times in a
\* row and its future holds RetryError.
C5_Witness ==
  /\ strategy = "threaded"
  /\ \E p \in Pages :
       /\ task[p] = "RetryError"
       /\ attempts[p] = MAX_RETRIES
       /\ response[p].status_code = 500

\* C6 (as claimed): a thread-pool run in which page p exhausted its retries
\* after a lower page q had been fetched successfully still returns to its
\* caller, and the collection it returns holds the items of page q.
C6_PartialResultOnExhaustion ==
  (strategy = "threaded" /\ Terminal)
    => \A p, q \in Pages :
         (q < p /\ task[p] = "RetryError" /\ task[q] = "json")
           => /\ pc = "returned"
              /\ Range(response[q].items) \subseteq Range(all_measurements)

\* C7 (as claimed): ingest_measurements of skill_boost_consuming_apis.main_sync
\* never raises when the only failures are the HTTP 500 responses the
\* unreliable endpoint injects.
C7_TransientFailuresNeverCrash ==
  (strategy = "sync" /\ endpoint = "/measurements/very-reliable"
     /\ \A p \in Pages : response[p].status_code \in {0, 200, 500})
    => pc # "raised"

\* C8 (as claimed): in the sequential and the asyncio runs, once page p has
\* failed or is missing, the returned collection holds no item of a page
\* numbered above p.
C8_StopAtFirstFailedPage ==
  (strategy \in {"sync", "sync_root", "async"} /\ pc = "returned")
    => \A p, q \in Pages :
         (p < q /\ response[p].status_code # 200)
           => Range(response[q].items) \cap Range(all_measurements) = {}

\* C9 (as claimed): a sequential run does not end on a page whose request
\* failed with HTTP 500 unless that page has been requested again.
C9_SequentialRetries ==
  (Sequential /\ Terminal)
    => \A p \in Pages : response[p].status_code = 500 => attempts[p] > 1

\* C10 (as claimed): fetch_page issues a single request for a page answered
\* with a client error (HTTP 4xx).
C10_ClientErrorNotRetried ==
  strategy = "threaded" =>
    \A p \in Pages :
      (response[p].status_code >= 400 /\ response[p].status_code < 500)
        => attempts[p] <= 1


\* ------------------------------------------------------- the generator
\* A filter key is supplied when the request carries a non-empty device_id.
Supplied(device_id) == device_id \notin {NoDevice, ""}

\* What generate_measurements(count, device_id) returns in a process that
\* has handled nothing yet.
FirstDataset(count, device_id) ==
  generate_measurements_call(OsSeeded, count, device_id).measurements

\* C12: for a fixed count and device_id, generate_measurements returns the
\* same dataset (ids, timestamps, attributes, order) on every call: whatever
\* the service handled before (calls with other arguments, rolls of the
\* failure injector), a call returns what the first call of a fresh process
\* returns for these arguments.
C12_GeneratorDeterminism ==
  last.generated =>
    last.dataset = FirstDataset(last.count, last.device_id)

\* A call of at least two records made after a call with other arguments
\* and a failed roll of the injector.
C12_Witness ==
  /\ last.generated
  /\ last.count >= 2
  /\ prior = {"other_arguments", "failed_roll"}

\* C19: the dataset is sorted by timestamp descending and two records with
\* equal timestamps appear in ascending identifier order, on every call.
C19_DatasetOrdering ==
  last.generated =>
    \A i, j \in 1..Len(last.dataset) :
      i < j =>
        \/ last.dataset[i].timestamp > last.dataset[j].timestamp
        \/ /\ last.dataset[i].timestamp = last.dataset[j].timestamp
           /\ last.dataset[i].id < last.dataset[j].id

ValidDatasetAndSize ==
  /\ query.total >= 1 /\ query.total <= 1000
  /\ query.size >= 1 /\ query.size <= 100

\* The dataset of the query.
QueryDataset == FirstDataset(query.total, query.device_id)

\* Python's seq[a:b] for 0 <= a <= b.
PySlice(seq, a, b) ==
  [k \in 1..(Min(b, Len(seq)) - Min(a, Len(seq))) |->
     seq[Min(a, Len(seq)) + k]]

Ceil(a, b) == (a + b - 1) \div b

Answered200(p) == served[p].response.status_code = 200

RECURSIVE ConcatPages(_)
ConcatPages(n) ==
  IF n = 0 THEN <<>> ELSE ConcatPages(n - 1) \o served[n].response.items

Ids(items) == {items[k].id : k \in 1..Len(items)}

\* C13: for a dataset of length L and a valid page size s, page p served by
\* /measurements/page holds dataset[(p-1)*s : (p-1)*s+s], and the items of
\* pages 1..ceil(L/s) concatenated are the generated dataset itself.
C13_PaginationExactness ==
  (query.endpoint = "/measurements/page" /\ ValidDatasetAndSize) =>
    /\ \A p \in ServedPages :
         (p >= 1 /\ IsServed(p)) =>
           served[p].response.items =
             PySlice(QueryDataset, (p - 1) * query.size,
                     (p - 1) * query.size + query.size)
    /\ LET n == Ceil(Len(QueryDataset), query.size)
       IN (n \in ServedPages /\ \A p \in 1..n : IsServed(p)) =>
            ConcatPages(n) = QueryDataset

\* All pages of a dataset of at least three pages were served.
C13_Witness ==
  /\ query.endpoint = "/measurements/page"
  /\ ValidDatasetAndSize
  /\ Ceil(query.total, query.size) >= 3
  /\ Ceil(query.total, query.size) \in ServedPages
  /\ \A p \in 1..Ceil(query.total, query.size) : Answered200(p)
  /\ Len(ConcatPages(Ceil(query.total, query.size))) = query.total

\* C14: every answer of /measurements/very-reliable is either HTTP 500
\* without items or exactly the answer of /measurements/page to the same
\* (total, page, size, device_id).
C14_UnreliabilityIndependence ==
  query.endpoint = "/measurements/very-reliable" =>
    \A p \in ServedPages :
      IsServed(p) =>
        \/ served[p].response = Response(500, <<>>)
        \/ \E h \in get_measurements_page_call(
                      rng, Query(query.total, p, query.size,
                                 query.device_id)) :
             served[p].response = h.response

\* The unreliable endpoint answered one page of a filtered query with
\* items and another one with HTTP 500.
C14_Witness ==
  /\ query.endpoint = "/measurements/very-reliable"
  /\ Supplied(query.device_id)
  /\ \E p, q \in ServedPages :
       /\ Answered200(p) /\ Len(served[p].response.items) >= 2
       /\ served[q].response.status_code = 500

\* C15: page requests of one query handled in any order, with other
\* requests through the same seeded generator in between, are sliced from
\* one dataset: no two pages overlap and, once pages 1..ceil(L/s) are
\* there, no record is missing.
C15_SlicingConsistency ==
  ValidDatasetAndSize =>
    /\ \A p, q \in ServedPages :
         (p < q /\ Answered200(p) /\ Answered200(q)) =>
           Ids(served[p].response.items)
             \cap Ids(served[q].response.items) = {}
    /\ LET n == Ceil(query.total, query.size)
       IN (n \in ServedPages /\ \A p \in 1..n : Answered200(p)) =>
            /\ UNION {Ids(served[p].response.items) : p \in 1..n}
                 = {At(Uuid5Prefix, i) : i \in 0..(query.total - 1)}
            /\ Len(ConcatPages(n)) = query.total

\* At least two pages, served out of order with another client's request
\* in between, make up the whole dataset.
C15_Witness ==
  /\ ValidDatasetAndSize
  /\ prior = {"out_of_order", "interleaved"}
  /\ Ceil(query.total, query.size) >= 2
  /\ Ceil(query.total, query.size) \in ServedPages
  /\ \A p \in 1..Ceil(query.total, query.size) :
       Answered200(p) /\ served[p].generated

\* C17: /measurements/page answers a request for a page past the end of
\* the dataset ((page-1)*size >= L) with HTTP 200 and no items.
C17_PageBeyondEnd ==
  (query.endpoint = "/measurements/page" /\ ValidDatasetAndSize) =>
    \A p \in ServedPages :
      (p >= 1 /\ (p - 1) * query.size >= Len(QueryDataset) /\ IsServed(p))
        => served[p].response = Response(200, <<>>)

\* A page past the end of a non-empty dataset was served.
C17_Witness ==
  /\ query.endpoint = "/measurements/page"
  /\ ValidDatasetAndSize
  /\ \E p \in ServedPages :
       /\ p >= 2
       /\ (p - 1) * query.size >= query.total
       /\ Answered200(p)
       /\ served[p].generated

\* C18: a page request with size < 1, size > 100 or page < 1 is answered
\* with the client error HTTP 422 and no items, and no dataset is generated
\* or sliced for it.
C18_InvalidRequestRejected ==
  \A p \in ServedPages :
    (IsServed(p) /\ (query.size < 1 \/ query.size > 100 \/ p < 1)) =>
      /\ served[p].response = Response(422, <<>>)
      /\ ~served[p].generated

\* Both kinds of bad request were rejected for an otherwise valid query:
\* page 0, and page 1 with a size above 100.
C18_Witness ==
  /\ query.total >= 1 /\ query.total <= 1000
  /\ query.size > 100
  /\ served[0].response.status_code = 422
  /\ served[1].response.status_code = 422
  /\ rng = OsSeeded

C11_ResultDrivenBackoff ==
  call_pc = "extend" =>
    (~result.has_backoff \/ attempt_number = max_retries)

\* ------------------------------------------------------------------ export
\* C21: after save_to_csv the file exists; for an empty list it holds the
\* no-data marker row, for a non-empty list the header followed by one row
\* per record, in the order of the list.
C21_ExportSink ==
  export_pc = "saved" =>
    /\ sink.exists
    /\ IF exported = <<>>
       THEN Len(sink.rows) = 1 /\ Len(sink.rows[1]) = 1
            /\ sink.rows[1] = MarkerRow
       ELSE /\ Len(sink.rows) = Len(exported) + 1
            /\ Len(sink.rows[1]) = 4
            /\ sink.rows[1] = IF script \in MeasurementScripts
                              THEN MeasurementFields ELSE AnswerFields
            /\ \A k \in 1..Len(exported) :
                 sink.rows[k + 1] = IF script \in MeasurementScripts
                                    THEN MeasurementRow(exported[k])
                                    ELSE AnswerRow(exported[k])

\* ------------------------------------------------ the concurrent strategies
Concurrent == strategy \in {"async", "threaded"}

\* The run reads, or has read, the results of its fetches.
ReadingResults == pc \in {"process", "as_completed"} \/ Terminal

Failed(p) == task[p] \in {"none", "HTTPError", "RetryError"}

\* C23: the asyncio fan-out and the thread pool issue a request for every
\* page 1..max_pages, whatever the length of the dataset and whichever
\* pages come back short or empty.
C23_EveryPageAttempted ==
  (Concurrent /\ ReadingResults) => \A p \in Pages : attempts[p] >= 1

\* A finished concurrent run whose first page was short and whose last
\* page was requested all the same.
C23_Witness ==
  /\ Concurrent
  /\ pc = "returned"
  /\ max_pages >= 3
  /\ response[1].status_code = 200
  /\ Len(response[1].items) < page_size
  /\ attempts[max_pages] >= 1

\* C24: in the asyncio fan-out and in the thread pool the failure of one
\* page fetch leaves the other fetches running: when the results are read,
\* every other fetch has been issued and has finished.
C24_FailureIsolation ==
  (Concurrent /\ ReadingResults /\ \E p \in Pages : Failed(p)) =>
    \A q \in Pages :
      /\ attempts[q] >= 1
      /\ task[q] \in {"json", "none", "HTTPError", "RetryError"}

\* A page failed after its retries and a higher page was fetched with
\* items all the same.
C24_Witness ==
  /\ strategy = "threaded"
  /\ ReadingResults
  /\ \E p, q \in Pages :
       /\ p < q
       /\ task[p] = "RetryError"
       /\ task[q] = "json"
       /\ Len(response[q].items) >= 1

\* C25: in the thread pool at most MAX_WORKERS page fetches are in flight,
\* in every state and for any max_pages.
C25_BoundedPool ==
  strategy = "threaded" =>
    Cardinality({p \in Pages : task[p] = "running"}) <= MAX_WORKERS

\* All workers busy while a page still waits in the queue.
C25_Witness ==
  /\ strategy = "threaded"
  /\ max_pages > MAX_WORKERS
  /\ Cardinality({p \in Pages : task[p] = "running"}) = MAX_WORKERS
  /\ \E p \in Pages : task[p] = "queued"

\* C26: in the concurrent strategies every page index has one task, and
\* the collection holds at most one result per page index: no record is in
\* it twice, and each record in it came from exactly one page's response.
C26_OneWriterPerPage ==
  Concurrent =>
    \A k \in 1..Len(all_measurements) :
      /\ Count(all_measurements, all_measurements[k]) = 1
      /\ Cardinality({p \in Pages :
                        all_measurements[k] \in Range(response[p].items)}) = 1

\* Two pages have added their records to the collection of a thread-pool
\* run.
C26_Witness ==
  /\ strategy = "threaded"
  /\ \E p, q \in yielded :
       /\ p # q
       /\ response[p].items # <<>>
       /\ response[q].items # <<>>
       /\ Range(response[p].items) \cup Range(response[q].items)
            \subseteq Range(all_measurements)

\* The results the asyncio run has examined so far, pages 1..n in order.
RECURSIVE ExaminedInOrder(_)
ExaminedInOrder(n) ==
  IF n = 0 THEN <<>>
  ELSE ExaminedInOrder(n - 1)
         \o (IF task[n] = "json" THEN response[n].items ELSE <<>>)

\* C28: in the asyncio fan-out all max_pages tasks are created before any
\* of them runs or is examined, and the results are examined in ascending
\* page-number order.
C28_CreateAllThenExamineInOrder ==
  strategy = "async" =>
    /\ (pc # "start" \/ \E p \in Pages : attempts[p] > 0)
         => \A q \in Pages : task[q] # "not_created"
    /\ pc = "process" => all_measurements = ExaminedInOrder(page - 1)
    /\ pc = "returned" => all_measurements = ExaminedInOrder(max_pages)

\* The second result is being examined after the first one added records.
C28_Witness ==
  /\ strategy = "async"
  /\ pc = "process"
  /\ page >= 2
  /\ max_pages >= 3
  /\ all_measurements # <<>>
  /\ all_measurements = ExaminedInOrder(page - 1)

C30_AllFetchedBeforeReading ==
  (strategy = "threaded"
     /\ (pc = "as_completed" \/ yielded # {} \/ Terminal)) =>
    \A p \in Pages :
      /\ attempts[p] >= 1
      /\ task[p] \in {"json", "none", "HTTPError", "RetryError"}

\* The run returned on a short page and left unread a page that had been
\* fetched with records.
C30_Witness ==
  /\ strategy = "threaded"
  /\ pc = "returned"
  /\ \E p \in Pages \ yielded :
       /\ task[p] = "json"
       /\ attempts[p] >= 1
       /\ response[p].items # <<>>

\* ------------------------------------------------------------ termination
AllRunsReturned ==
  /\ plan = <<>>
  /\ pc = "returned"
  /\ \A s \in Strategies : returned[s].kind \in {"not_run", "returned"}

\* C22: on /measurements/page with valid parameters every run of the
\* session (sequential, asyncio, thread pool) terminates and returns a
\* collection.
C22_Terminates ==
  (endpoint = "/measurements/page" /\ total >= 1) => <>AllRunsReturned

\* The three implementations ran one after the other and each returned the
\* records it fetched.
C22_Witness ==
  /\ endpoint = "/measurements/page"
  /\ total >= 1
  /\ AllRunsReturned
  /\ \A s \in {"sync", "async", "threaded"} :
       returned[s].kind = "returned" /\ returned[s].value # <<>>


\* C27: a page fetch of the thread-pool client that fails with a connect or
\* timeout failure is retried: when the page's future ends in an exception
\* and its last request got no response, the page was requested
\* MAX_RETRIES times.
C27_ConnectFailureRetried ==
  strategy = "threaded" =>
    \A p \in Pages :
      (Finished(p) /\ task[p] \notin {"json", "none"}
         /\ response[p] = NoResponse)
        => attempts[p] >= MAX_RETRIES


\* The requests the run in progress has issued so far.
RECURSIVE RequestsUpTo(_)
RequestsUpTo(n) == IF n = 0 THEN 0 ELSE RequestsUpTo(n - 1) + attempts[n]

Requests == RequestsUpTo(max_pages)

RunOver == pc \in {"returned", "raised"}

RequestsBounded ==
  /\ strategy \in {"sync", "sync_root"} => Requests <= max_pages
  /\ strategy = "async" =>
       /\ Requests <= max_pages
       /\ RunOver => Requests = max_pages
  /\ strategy = "threaded" => Requests <= max_pages * MAX_RETRIES

\* C31: whatever the service answers, an ingestion run ends (returns or
\* raises) and its number of requests is bounded: at most max_pages for the
\* sequential loop, exactly max_pages for the asyncio fan-out once it has
\* ended, at most max_pages * MAX_RETRIES for the thread pool.
C31_TerminatesBounded == []RequestsBounded /\ <>RunOver

\* A thread-pool run over several pages has ended after every page used up
\* all its attempts.
C31_Witness ==
  /\ strategy = "threaded"
  /\ RunOver
  /\ max_pages >= 2
  /\ Requests = max_pages * MAX_RETRIES


SequentialOver ==
  /\ strategy \in {"sync", "sync_root"}
  /\ endpoint = "/measurements/page"
  /\ total >= 1
  /\ RunOver

\* C32: on /measurements/page with a dataset of L = total records, a
\* sequential run that has ended made exactly
\* min(max_pages, floor(L / page_size) + 1) requests.
C32_SequentialRequestCount ==
  SequentialOver =>
    /\ pc = "returned"
    /\ Requests = Min(max_pages, (total \div page_size) + 1)

\* L is a multiple of page_size and max_pages allows it: the last request
\* of the ended run was answered with an empty page.
C32_Witness ==
  /\ SequentialOver
  /\ total % page_size = 0
  /\ max_pages > total \div page_size
  /\ Requests = (total \div page_size) + 1
  /\ response[Requests].status_code = 200
  /\ response[Requests].items = <<>>


\* ------------------------------------------------- fetch_all_single_url
\* The items of the first n requests, page after page (an item stands for
\* the page it came with).
RECURSIVE ItemsOfCalls(_)
ItemsOfCalls(n) ==
  IF n = 0 THEN <<>>
  ELSE ItemsOfCalls(n - 1) \o [k \in 1..calls[n].result.items |-> calls[n].page]

\* C33: fetch_all_single_url requests pages 1, 2, ... in this order, goes
\* on only after a response with has_more true, never beyond page
\* LAST_PAGE, and returns after the first response whose has_more is false
\* or after page LAST_PAGE with the pages' items in page order.
C33_AscendingUntilNoMore ==
  /\ Len(calls) <= LAST_PAGE
  /\ \A k \in 1..Len(calls) :
       /\ calls[k].page = k
       /\ k < Len(calls) =>
            calls[k].result.kind = "json" /\ calls[k].result.has_more
  /\ call_pc = "returned" =>
       /\ calls # <<>>
       /\ ~calls[Len(calls)].result.has_more \/ Len(calls) = LAST_PAGE
       /\ results = ItemsOfCalls(Len(calls))

\* fetch_all_single_url has returned before page LAST_PAGE, after a
\* response with has_more false that followed one with has_more true, and
\* with items of both pages.
C33_Witness ==
  /\ call_pc = "returned"
  /\ Len(calls) = 2
  /\ ~calls[2].result.has_more
  /\ calls[1].result.items > 0
  /\ calls[2].result.items > 0

\* fetch_all_single_url has returned after page LAST_PAGE although the last
\* response had has_more true.
C33_WitnessLastPage ==
  /\ call_pc = "returned"
  /\ Len(calls) = LAST_PAGE
  /\ calls[LAST_PAGE].result.has_more

RECURSIVE ItemsOfFetched(_)
ItemsOfFetched(n) ==
  IF n = 0 THEN <<>>
  ELSE ItemsOfFetched(n - 1)
         \o fetch_answers(fetched[n].page, fetched[n].response).items

\* C34: main_async requests pages 1, 2, ... in this order, never more than
\* max_pages of them and never with more than one request in flight; it
\* requests a further page only after a 200 response with has_more true;
\* what it collected is the fetched pages' items in page order.
C34_OneAtATimeInOrder ==
  /\ Cardinality(in_flight) <= 1
  /\ Len(asked) <= answers_max_pages
  /\ Len(asked) = Len(fetched) + Cardinality(in_flight)
  /\ \A k \in 1..Len(asked) : asked[k] = k
  /\ \A k \in 1..Len(fetched) :
       /\ fetched[k].page = k
       /\ k < Len(asked) =>
            /\ fetched[k].response.status = 200
            /\ fetched[k].response.has_more = "true"
  /\ all_answers = ItemsOfFetched(IF answers_pc = "await"
                                  THEN Len(asked) - 1 ELSE Len(asked))

\* main_async has returned after two pages with items, the second without
\* a has_more, although max_pages allowed a third.
C34_Witness ==
  /\ answers_pc = "returned"
  /\ answers_max_pages > 2
  /\ Len(asked) = 2
  /\ fetched[2].response.has_more = "absent"
  /\ Len(all_answers) = 2
  /\ exported = all_answers

=============================================================================
